---------------------------- MODULE Spec2Model ----------------------------
(***************************************************************************)
(* Model of the sentiment dashboard:                                       *)
(*   - the snapshot builder getSampleData() of                             *)
(*     frontend/src/hooks/useSentimentData.js;                             *)
(*   - the hook useSentimentData of the same file, which fetches the       *)
(*     published data.json and falls back to getSampleData();              *)
(*   - the places of the presentation layer that turn a score back into    *)
(*     a label (LiveFeed.getSentimentInfo, the badge of App);              *)
(*   - one run of the pipeline that publishes data.json (scripts/          *)
(*     scraper.py, which is not among the sources at hand: its steps       *)
(*     follow the design document).                                        *)
(*                                                                         *)
(* Numbers.  Scores are JavaScript doubles; the model computes them        *)
(* exactly, in fixed point:                                                *)
(*   - a "raw" value counts ten-thousandths (0.2003 is 2003): the          *)
(*     unrounded `sentiment` of line 90 and `dayTotal` of line 102;        *)
(*   - a "milli" value counts thousandths (0.2 is 200): everything that    *)
(*     went through parseFloat(x.toFixed(3)).                              *)
(* A quotient is carried as numerator and denominator until it is rounded  *)
(* or compared, so a mean is never truncated before its use.               *)
(*                                                                         *)
(* Time.  A timestamp counts whole hours since the epoch, in UTC.          *)
(* setDate(getDate() - day) works on the calendar of the local time zone   *)
(* of the browser: a zone is a record of its offsets from UTC before and   *)
(* after one transition.  toISOString().split('T')[0] is the day number,   *)
(* the timestamp divided by 24.                                            *)
(***************************************************************************)
EXTENDS Integers, Sequences, FiniteSets, TLC

VARIABLES
    now,          \* line 44: const now = new Date()
    zone,         \* the local time zone of the browser
    pc,           \* position in getSampleData
    day,          \* line 77: the outer loop counter
    i,            \* line 86: the inner loop counter
    numArticles,  \* line 83
    dayTotal,     \* line 84 (raw)
    articles,     \* line 45
    dailyStats,   \* line 46
    maI,          \* line 118: the counter of the moving-average loop
    sourceStats,  \* line 134
    snapshot,     \* the value returned at lines 144-152
    \* useSentimentData
    response,     \* how the fetch of data.json settles
    hpc,          \* position in fetchData
    data,         \* line 8
    loading,      \* line 9
    error,        \* line 10
    \* one run of the pipeline
    ppc,          \* position in the run
    items,        \* the raw items fetched from the feeds
    shells,       \* the normalized items not yet classified
    classified,   \* the articles classified so far
    files,        \* the published data.json and the writer's temporary file
    exitStatus,   \* the exit status of the run
    \* App and its ScrollSections
    inView,        \* ScrollSection: the inView of each section's useInView
    activeSection, \* App.jsx line 16
    scrollY,       \* App.jsx line 17
    sectionQueue,  \* the setActiveSection updates React has not yet processed
    scrollQueue,   \* the setScrollY update React has not yet processed
    notified,      \* onVisible was called since a section last left the view
    \* LiveFeed
    feedArticles,  \* LiveFeed: the articles prop
    feedLimit,     \* LiveFeed: the limit prop
    expanded,      \* LineChart.jsx line 309
    \* LineChart and BubbleChart, as drawn
    chartDay,      \* LineChart: one DailyStat of data.daily_stats
    trendY,        \* LineChart: the values its area and its trend line plot for it
    pointFill,     \* LineChart: the fill of its day point
    barSource,     \* BubbleChart: the avg_sentiment of one SourceStat
    barFill,       \* BubbleChart: the fill of its bar
    scoreFill,     \* BubbleChart: the fill of its score label
    \* useScrollProgress
    element,       \* ref.current and its bounding rectangle at the last scroll event
    windowHeight,  \* window.innerHeight at the last scroll event
    progress,      \* App.jsx line 358
    isVisible      \* App.jsx line 359

sampleVars == <<now, zone, pc, day, i, numArticles, dayTotal, articles, dailyStats,
                maI, sourceStats, snapshot>>

hookVars == <<response, hpc, data, loading, error>>

pipelineVars == <<ppc, items, shells, classified, files, exitStatus>>

scrollVars == <<inView, activeSection, scrollY, sectionQueue, scrollQueue, notified>>

feedVars == <<feedArticles, feedLimit, expanded>>

chartVars == <<chartDay, trendY, pointFill, barSource, barFill, scoreFill>>

progressVars == <<element, windowHeight, progress, isVisible>>

viewVars == <<scrollVars, feedVars, chartVars, progressVars>>

vars == <<sampleVars, hookVars, pipelineVars, viewVars>>

-----------------------------------------------------------------------------
(* Bounds of the model *)

\* Days generated by the outer loop (the code generates 14).
NumDays == 2

\* Least number of articles of a day (the code's 4 in 4 + floor(random * 5)).
MinArticles == 1

\* Longest daily series the moving-average pass is run on in SpecTrend.
MaxTrendDays == 8

-----------------------------------------------------------------------------
(* Program data *)

\* lines 47-51
sources ==
    << "TechCrunch", "The Verge", "Bloomberg", "Reuters",
       "BBC News", "Ars Technica", "VentureBeat", "MIT Technology Review",
       "The Guardian", "New York Times", "Wired", "CNBC" >>

\* lines 53-74: the sentiment of each headline (raw); the text of a headline
\* is identified with its index.
headlines ==
    << 7500, 8200, -6500, 5800, 1200, 4500, 6200, -7800, 7100, -4200,
       8500, -6800, 5500, -3500, 3800, -7200, 6800, 2500, -1800, 7900 >>

\* line 119: slice(Math.max(0, i - 6), i + 1) holds at most 7 entries
WindowBack == 6

-----------------------------------------------------------------------------
(* Inputs *)

\* Values of `now`: midnight UTC and noon UTC of day 20.
NowChoices == { 20 * 24, 20 * 24 + 12 }

\* A time zone that is UTC all year.
UTC == [transition |-> 0, before |-> 0, after |-> 0]

\* A time zone that goes from UTC to UTC+1 at 01:00 UTC of day 19 (the
\* start of summer time in London).
SpringForward == [transition |-> 19 * 24 + 1, before |-> 0, after |-> 1]

\* The clock of the browser when getSampleData is called: the values of
\* NowChoices under UTC, and local midnight of the day after the start of
\* summer time.
Clocks ==
    {[now |-> n, zone |-> UTC] : n \in NowChoices}
        \cup {[now |-> 19 * 24 + 23, zone |-> SpringForward]}

\* floor(Math.random() * 5) of line 83 is drawn from 0..4; the model draws
\* it from 0..1.
ExtraChoices == 0 .. 1

\* The random draws of one inner iteration (lines 87-89 and 99): the
\* headline index, the source index, the variation (raw, within
\* (-1500, 1500)) and the confidence before rounding (raw, within
\* [7000, 9500)).
Draws ==
    { [headline |-> 18, source |-> 1, variation |-> -497, confidence |-> 8254],
      [headline |-> 18, source |-> 1, variation |-> -494, confidence |-> 8254],
      [headline |-> 19, source |-> 3, variation |-> -203, confidence |-> 8254] }

-----------------------------------------------------------------------------
(* Arithmetic *)

Max(a, b) == IF a >= b THEN a ELSE b
Min(a, b) == IF a <= b THEN a ELSE b

\* Number.prototype.toFixed(3) followed by parseFloat, on the value
\* num / den counted in thousandths (den > 0): the nearest thousandth, the
\* larger magnitude on a tie.
ToFixed3(num, den) ==
    IF num >= 0
    THEN (2 * num + den) \div (2 * den)
    ELSE -((2 * (-num) + den) \div (2 * den))

\* toISOString().split('T')[0] of a timestamp: its UTC calendar date.
DateStr(t) == t \div 24

RECURSIVE SumSeq(_)
\* reduce((a, b) => a + b, 0)
SumSeq(s) == IF s = << >> THEN 0 ELSE s[1] + SumSeq(Tail(s))

\* Array.prototype.reverse
Reverse(s) == [k \in 1 .. Len(s) |-> s[Len(s) + 1 - k]]


\* The index n put into `before`, an order of the indices 1 .. n-1 that is
\* descending in key: behind every index whose key is not smaller.
InsertedOrder(before, key, n) ==
    LET ahead == Cardinality({p \in DOMAIN before : key[before[p]] >= key[n]})
    IN  SubSeq(before, 1, ahead) \o <<n>> \o SubSeq(before, ahead + 1, n - 1)

RECURSIVE SortedOrder(_, _)
\* The indices 1 .. n in descending order of key, an index behind every
\* smaller index of the same key: insertion of n into the order of 1 .. n-1
\* (the order of 1 .. n-1 is taken from a set of one element, which fixes its
\* value before it is used).
SortedOrder(key, n) ==
    IF n = 0 THEN << >>
    ELSE CHOOSE order \in {InsertedOrder(before, key, n) :
                              before \in {SortedOrder(key, n - 1)}} : TRUE

\* Array.prototype.sort with a comparator (a, b) => key of b - key of a,
\* key[k] being the key of s[k]: a stable sort into descending key order.
SortDesc(s, key) ==
    LET order == SortedOrder(key, Len(s))
    IN  [p \in 1 .. Len(s) |-> s[order[p]]]

-----------------------------------------------------------------------------
(* getSampleData: the day loop, lines 77-114 *)

\* The local time of the timestamp t in the zone z.
LocalOf(z, t) == t + (IF t < z.transition THEN z.before ELSE z.after)

\* The timestamp of a local time of the zone z.
UtcOf(z, local) ==
    IF local - z.before < z.transition THEN local - z.before ELSE local - z.after

\* DateOf with the loop counting the days from 1 (one day further back).
DateOfDayEarlier(dy) == UtcOf(zone, LocalOf(zone, now) - 24 * (dy + 1))

\* lines 78-79: `now` moved back by `day` days of the local calendar, at the
\* same local time of day
DateOf(dy) == UtcOf(zone, LocalOf(zone, now) - 24 * dy)

\* line 90 (raw)
Sentiment(d) == Max(-10000, Min(10000, headlines[d.headline] + d.variation))

\* line 98: the label, taken from the unrounded sentiment
ArticleLabel(sentiment) ==
    IF sentiment > 2000 THEN "Positive"
    ELSE IF sentiment < -2000 THEN "Negative"
    ELSE "Neutral"

\* line 97: parseFloat(sentiment.toFixed(3))
ArticleScore(sentiment) == ToFixed3(sentiment, 10)

\* lines 92-100
NewArticle(d, dy, k) ==
    [ headline        |-> d.headline,
      source          |-> sources[d.source],
      link            |-> <<dy, k>>,
      published       |-> DateOf(dy) - k,
      sentiment_score |-> ArticleScore(Sentiment(d)),
      sentiment_label |-> ArticleLabel(Sentiment(d)),
      confidence      |-> ToFixed3(d.confidence, 10) ]

\* lines 110-112: the three filters over every article pushed so far
PositiveCount(arts, dateStr) ==
    Cardinality({k \in DOMAIN arts :
        DateStr(arts[k].published) = dateStr /\ arts[k].sentiment_score > 200})

NegativeCount(arts, dateStr) ==
    Cardinality({k \in DOMAIN arts :
        DateStr(arts[k].published) = dateStr /\ arts[k].sentiment_score < -200})

NeutralCount(arts, dateStr) ==
    Cardinality({k \in DOMAIN arts :
        /\ DateStr(arts[k].published) = dateStr
        /\ arts[k].sentiment_score <= 200
        /\ arts[k].sentiment_score >= -200})

\* lines 105-113
NewDailyStat(dy, total, n, arts) ==
    [ date           |-> DateStr(DateOf(dy)),
      avg_sentiment  |-> ToFixed3(total, 10 * n),
      article_count  |-> n,
      positive_count |-> PositiveCount(arts, DateStr(DateOf(dy))),
      negative_count |-> NegativeCount(arts, DateStr(DateOf(dy))),
      neutral_count  |-> NeutralCount(arts, DateStr(DateOf(dy))) ]

NoSnapshot ==
    [ last_updated |-> 0, total_articles |-> 0, overall_sentiment |-> 0,
      overall_label |-> "", daily_stats |-> << >>, source_stats |-> << >>,
      articles |-> << >> ]

\* JavaScript null.
Null == [type |-> "null"]

\* A JavaScript string.
JsString(s) == [type |-> "string", value |-> s]

\* The snapshot that the last successful run of the pipeline published as
\* data.json (the example of the README).
PublishedSnapshot ==
    [ last_updated      |-> 19 * 24 + 12,
      total_articles    |-> 1,
      overall_sentiment |-> 756,
      overall_label     |-> "Positive",
      daily_stats       |-> << [ date |-> 19, avg_sentiment |-> 756, article_count |-> 1,
                                 moving_avg |-> 756 ] >>,
      source_stats      |-> << [ source |-> "TechCrunch", avg_sentiment |-> 756,
                                 article_count |-> 1 ] >>,
      articles          |-> << [ headline |-> "OpenAI Announces Breakthrough...",
                                 source |-> "TechCrunch", sentiment_score |-> 756,
                                 sentiment_label |-> "Positive" ] >> ]

\* No file.
NoFile == [type |-> "missing"]

\* useSentimentData is not mounted.
HookIdle ==
    /\ response = Null
    /\ hpc = "unmounted"
    /\ data = Null
    /\ loading = TRUE
    /\ error = Null

\* No run of the pipeline is under way.
\* The sections of App in document order (App.jsx lines 93, 188, 246, 313)
Sections == <<"hero", "trends", "sources", "feed">>

\* App is mounted and no section has been reported in view.
ScrollIdle ==
    /\ inView = [k \in DOMAIN Sections |-> FALSE]
    /\ activeSection = "hero"
    /\ scrollY = 0
    /\ sectionQueue = << >>
    /\ scrollQueue = << >>
    /\ notified = FALSE

\* No LiveFeed is mounted.
FeedIdle ==
    /\ feedArticles = [present |-> FALSE, list |-> << >>]
    /\ feedLimit = 0
    /\ expanded = FALSE

\* No chart is drawn.
ChartIdle ==
    /\ chartDay = Null
    /\ trendY = Null
    /\ pointFill = ""
    /\ barSource = 0
    /\ barFill = ""
    /\ scoreFill = ""

\* useScrollProgress is not in use.
ProgressIdle ==
    /\ element = Null
    /\ windowHeight = 0
    /\ progress = [num |-> 0, den |-> 1]
    /\ isVisible = FALSE

ViewIdle ==
    /\ ScrollIdle
    /\ FeedIdle
    /\ ChartIdle
    /\ ProgressIdle

PipelineIdle ==
    /\ ppc = "idle"
    /\ items = << >>
    /\ shells = << >>
    /\ classified = << >>
    /\ files = [published |-> PublishedSnapshot, temp |-> NoFile]
    /\ exitStatus = "none"

\* lines 44-46: the state on entry to the day loop
Init ==
    /\ ViewIdle
    /\ HookIdle
    /\ PipelineIdle
    /\ \E c \in Clocks : now = c.now /\ zone = c.zone
    /\ pc = "day"
    /\ day = 0
    /\ i = 0
    /\ numArticles = 0
    /\ dayTotal = 0
    /\ articles = << >>
    /\ dailyStats = << >>
    /\ maI = 0
    /\ sourceStats = << >>
    /\ snapshot = NoSnapshot

\* lines 77-84: enter an iteration of the outer loop
StartDay ==
    /\ pc = "day"
    /\ day < NumDays
    /\ \E extra \in ExtraChoices : numArticles' = MinArticles + extra
    /\ dayTotal' = 0
    /\ i' = 0
    /\ pc' = "article"
    /\ UNCHANGED <<viewVars, hookVars, pipelineVars, now, zone, day, articles, dailyStats, maI, sourceStats, snapshot>>

\* lines 86-103: one iteration of the inner loop, with the draws d
PushArticleOf(d) ==
    /\ pc = "article"
    /\ i < numArticles
    /\ articles' = Append(articles, NewArticle(d, day, i))
    /\ dayTotal' = dayTotal + Sentiment(d)
    /\ i' = i + 1
    /\ UNCHANGED <<viewVars, hookVars, pipelineVars, now, zone, pc, day, numArticles, dailyStats, maI, sourceStats, snapshot>>

\* lines 86-103: one iteration of the inner loop
PushArticle == \E d \in Draws : PushArticleOf(d)

\* lines 105-114: the inner loop is over; push the day's statistics
EndDay ==
    /\ pc = "article"
    /\ i = numArticles
    /\ dailyStats' = Append(dailyStats, NewDailyStat(day, dayTotal, numArticles, articles))
    /\ day' = day + 1
    /\ pc' = IF day + 1 < NumDays THEN "day" ELSE "reverse"
    /\ UNCHANGED <<viewVars, hookVars, pipelineVars, now, zone, i, numArticles, dayTotal, articles, maI, sourceStats, snapshot>>

-----------------------------------------------------------------------------
(* getSampleData: the moving average, lines 116-122 *)

\* line 117: dailyStats.reverse()
ReverseStats ==
    /\ pc = "reverse"
    /\ dailyStats' = Reverse(dailyStats)
    /\ maI' = 0
    /\ pc' = "movingAvg"
    /\ UNCHANGED <<viewVars, hookVars, pipelineVars, now, zone, day, i, numArticles, dayTotal, articles, sourceStats, snapshot>>

\* Array.prototype.slice(from, to) with 0 <= from <= to <= length, on a
\* sequence indexed from 1
Slice(s, from, to) == SubSeq(s, from + 1, to)

\* WindowStart with the window one entry too long.
WindowStartOffByOne(k) == Max(0, k - WindowBack - 1)

\* line 119: the first index of the window ending at index k (from 0)
WindowStart(k) == Max(0, k - WindowBack)

\* lines 119-121: the moving average at index k (from 0)
MovingAvg(stats, k) ==
    LET window == Slice(stats, WindowStart(k), k + 1)
    IN  ToFixed3(SumSeq([j \in DOMAIN window |-> window[j].avg_sentiment]),
                 Len(window))

\* lines 118-122: one iteration of the loop
MovingAvgStep ==
    /\ pc = "movingAvg"
    /\ maI < Len(dailyStats)
    /\ dailyStats' = [dailyStats EXCEPT
          ![maI + 1] = ("moving_avg" :> MovingAvg(dailyStats, maI)) @@ @]
    /\ maI' = maI + 1
    /\ pc' = IF maI + 1 < Len(dailyStats) THEN "movingAvg" ELSE "sources"
    /\ UNCHANGED <<viewVars, hookVars, pipelineVars, now, zone, day, i, numArticles, dayTotal, articles, sourceStats, snapshot>>

-----------------------------------------------------------------------------
(* getSampleData: the source statistics, lines 124-140 *)

\* AddToSourceMap without the count++ of line 131.
AddToSourceMapNoCount(m, a) ==
    IF \E k \in DOMAIN m : m[k].source = a.source
    THEN [k \in DOMAIN m |->
            IF m[k].source = a.source
            THEN [m[k] EXCEPT !.scores = Append(@, a.sentiment_score)]
            ELSE m[k]]
    ELSE Append(m, [source |-> a.source, scores |-> <<a.sentiment_score>>, count |-> 1])

\* lines 127-131: one call of the forEach callback; the map keeps its keys
\* in insertion order
AddToSourceMap(m, a) ==
    IF \E k \in DOMAIN m : m[k].source = a.source
    THEN [k \in DOMAIN m |->
            IF m[k].source = a.source
            THEN [m[k] EXCEPT !.scores = Append(@, a.sentiment_score),
                              !.count = @ + 1]
            ELSE m[k]]
    ELSE Append(m, [source |-> a.source, scores |-> <<a.sentiment_score>>, count |-> 1])

RECURSIVE SourceMapFrom(_, _)
\* lines 125-132
SourceMapFrom(m, arts) ==
    IF arts = << >> THEN m
    ELSE SourceMapFrom(AddToSourceMap(m, Head(arts)), Tail(arts))

\* lines 138-139: the label, taken from the unrounded mean of the scores
SourceLabel(scores) ==
    IF SumSeq(scores) > 200 * Len(scores) THEN "Positive"
    ELSE IF SumSeq(scores) < -200 * Len(scores) THEN "Negative"
    ELSE "Neutral"

\* lines 134-139: Object.entries(sourceMap).map(...)
SourceStatOf(e) ==
    [ source          |-> e.source,
      avg_sentiment   |-> ToFixed3(SumSeq(e.scores), Len(e.scores)),
      article_count   |-> e.count,
      sentiment_label |-> SourceLabel(e.scores) ]

\* SortSourceStats without the sort of line 140.
SortSourceStatsSkipped(stats) == stats

\* line 140: .sort((a, b) => b.article_count - a.article_count)
SortSourceStats(stats) ==
    SortDesc(stats, [k \in DOMAIN stats |-> stats[k].article_count])

\* lines 125-140
CalcSourceStats ==
    /\ pc = "sources"
    /\ \E sourceMap \in {SourceMapFrom(<< >>, articles)} :
         \E stats \in {[k \in DOMAIN sourceMap |-> SourceStatOf(sourceMap[k])]} :
             sourceStats' = SortSourceStats(stats)
    /\ pc' = "return"
    /\ UNCHANGED <<viewVars, hookVars, pipelineVars, now, zone, day, i, numArticles, dayTotal, articles, dailyStats, maI, snapshot>>

-----------------------------------------------------------------------------
(* getSampleData: the summary and the returned snapshot, lines 142-152 *)

\* OverallSentiment as the mean of the daily averages.
OverallSentimentOfDailyMeans(arts) ==
    [ num |-> SumSeq([d \in DOMAIN dailyStats |-> dailyStats[d].avg_sentiment]),
      den |-> Len(dailyStats) ]

\* line 142: the unrounded quotient, as numerator and denominator
OverallSentiment(arts) ==
    [ num |-> SumSeq([k \in DOMAIN arts |-> arts[k].sentiment_score]),
      den |-> Len(arts) ]

\* line 148: the label, taken from the unrounded quotient
OverallLabel(q) ==
    IF q.num > 200 * q.den THEN "Positive"
    ELSE IF q.num < -200 * q.den THEN "Negative"
    ELSE "Neutral"

\* SortArticles with the comparator of line 151 turned around (a - b).
SortArticlesAscending(arts) ==
    SortDesc(arts, [k \in DOMAIN arts |-> - arts[k].published])

\* line 151: articles.sort((a, b) => new Date(b.published) - new Date(a.published))
SortArticles(arts) ==
    SortDesc(arts, [k \in DOMAIN arts |-> arts[k].published])

\* lines 144-152
Return ==
    /\ pc = "return"
    /\ \E overallSentiment \in {OverallSentiment(articles)} :
         \E sorted \in {SortArticles(articles)} :
           /\ snapshot' =
                [ last_updated      |-> now,
                  total_articles    |-> Len(articles),
                  overall_sentiment |-> ToFixed3(overallSentiment.num, overallSentiment.den),
                  overall_label     |-> OverallLabel(overallSentiment),
                  daily_stats       |-> dailyStats,
                  source_stats      |-> sourceStats,
                  articles          |-> sorted ]
           /\ articles' = sorted
    /\ pc' = "done"
    /\ UNCHANGED <<viewVars, hookVars, pipelineVars, now, zone, day, i, numArticles, dayTotal, dailyStats, maI, sourceStats>>

-----------------------------------------------------------------------------
(* Specifications *)

Next ==
    \/ StartDay
    \/ PushArticle
    \/ EndDay
    \/ ReverseStats
    \/ MovingAvgStep
    \/ CalcSourceStats
    \/ Return

Spec == Init /\ [][Next]_vars

\* The draws the days of SpecTrend are made of.
TrendDraws == {d \in Draws : d.variation # -494}

\* The articles of the days 0 .. n-1 when every day has MinArticles articles,
\* all of day k made with the draw f[k + 1], in the order the loop pushes them.
TrendArticles(f, n) ==
    [a \in 1 .. n * MinArticles |->
        NewArticle(f[((a - 1) \div MinArticles) + 1],
                   (a - 1) \div MinArticles, (a - 1) % MinArticles)]

\* The state at the exit of the day loop after n such days.
InitTrend ==
    /\ ViewIdle
    /\ HookIdle
    /\ PipelineIdle
    /\ now = 20 * 24 + 12
    /\ zone = UTC
    /\ pc = "reverse"
    /\ \E n \in 1 .. MaxTrendDays : \E f \in [1 .. n -> TrendDraws] :
          \E arts \in {TrendArticles(f, n)} :
              /\ day = n
              /\ articles = arts
              /\ dailyStats =
                   [k \in 1 .. n |->
                      NewDailyStat(k - 1, MinArticles * Sentiment(f[k]), MinArticles,
                                   SubSeq(arts, 1, k * MinArticles))]
              /\ dayTotal = MinArticles * Sentiment(f[n])
    /\ i = MinArticles
    /\ numArticles = MinArticles
    /\ maI = 0
    /\ sourceStats = << >>
    /\ snapshot = NoSnapshot

NextTrend ==
    \/ ReverseStats
    \/ MovingAvgStep
    \/ CalcSourceStats
    \/ Return

\* The passes behind the day loop, on daily series of up to MaxTrendDays days.
SpecTrend == InitTrend /\ [][NextTrend]_vars

-----------------------------------------------------------------------------
(* One run of the pipeline that publishes data.json.  scripts/scraper.py is
   not among the sources at hand; the steps follow sections 4 to 7 of the
   design document.  The run is modelled up to the classified articles and
   the writing of the file; the statistics of section 4.3 are left out of
   the snapshot it writes. *)

\* Most raw items the feeds return in one run.
MaxItems == 2

\* The clock of the run.
RunNow == 20 * 24 + 12

\* section 6: retentionDays (default 14), in hours
RetentionWindow == 24 * 14

\* Raw items of the feeds: an item, an item with the same headline and
\* source under another link, an item of another source, and an item older
\* than the retention window.
RawItemChoices ==
    { [ headline |-> "OpenAI Announces Breakthrough...", source |-> "TechCrunch",
        link |-> "https://example.com/1", published |-> RunNow - 5 ],
      [ headline |-> "OpenAI Announces Breakthrough...", source |-> "TechCrunch",
        link |-> "https://example.com/2", published |-> RunNow - 3 ],
      [ headline |-> "EU Passes Landmark AI Regulation Bill", source |-> "Reuters",
        link |-> "https://example.com/3", published |-> RunNow - 30 ],
      [ headline |-> "Meta Unveils New AI-Powered Social Features", source |-> "Wired",
        link |-> "https://example.com/4", published |-> RunNow - RetentionWindow - 1 ] }

\* The raw fetch results of a run, in feed fetch order.
FetchResults == UNION {[1 .. n -> RawItemChoices] : n \in 0 .. MaxItems}

\* section 4.2: what the classifier reports for the positive class, in
\* thousandths, on the items it does not fail on
Probabilities == {0, 50, 500, 900, 1000}

\* section 4.2: the results of one call of the classifier
ClassifierResults ==
    {[failed |-> TRUE, probability |-> 0]}
        \cup {[failed |-> FALSE, probability |-> p] : p \in Probabilities}

\* section 4.1: items with an empty headline and items older than the
\* retention window are discarded
Retained(its) ==
    SelectSeq(its, LAMBDA it : it.headline # "" /\ RunNow - it.published <= RetentionWindow)

RECURSIVE Dedup(_, _)
\* section 4.1: an item that matches an item seen before on (headline,
\* source) or on link is dropped; the first seen wins
Dedup(seen, rest) ==
    IF rest = << >> THEN seen
    ELSE IF \E k \in DOMAIN seen :
               \/ /\ seen[k].headline = Head(rest).headline
                  /\ seen[k].source = Head(rest).source
               \/ seen[k].link = Head(rest).link
         THEN Dedup(seen, Tail(rest))
         ELSE Dedup(Append(seen, Head(rest)), Tail(rest))

\* section 4.1: the deduplicated article shells of the raw items
Normalized(its) == Dedup(<< >>, Retained(its))

\* ClassifierScore as the probability of the winning class, signed.
ClassifierScoreSigned(p) == IF p >= 500 THEN p ELSE -(1000 - p)

\* section 4.2: score = 2p - 1, clamped to [-1, 1] (thousandths)
ClassifierScore(p) == Max(-1000, Min(1000, 2 * p - 1000))

\* section 4.2: the neutral deadband
ThresholdLabel(score) ==
    IF score > 200 THEN "Positive"
    ELSE IF score < -200 THEN "Negative"
    ELSE "Neutral"

\* section 4.2: the article of a shell the classifier gave the probability p
ClassifiedArticle(shell, p) ==
    [ headline        |-> shell.headline,
      source          |-> shell.source,
      link            |-> shell.link,
      published       |-> shell.published,
      probability     |-> p,
      sentiment_score |-> ClassifierScore(p),
      sentiment_label |-> ThresholdLabel(ClassifierScore(p)) ]

\* HasSurvivors with the check for an empty run left out.
HasSurvivorsUnchecked(arts) == TRUE

\* section 7: at least one article survived normalization and classification
HasSurvivors(arts) == Len(arts) > 0

\* section 4.4: the snapshot assembled from the classified articles
NewSnapshot(arts) ==
    [ last_updated |-> RunNow, total_articles |-> Len(arts), articles |-> arts ]

\* A file whose content is written in part.
PartialFile == [type |-> "partial"]

\* WriteTarget when the writer writes over the published file.
WriteTargetInPlace == "published"

\* section 4.4: the writer writes to a temporary location
WriteTarget == "temp"

\* The day loop of getSampleData is not running.
SampleIdle ==
    /\ now = 0
    /\ zone = UTC
    /\ pc = "idle"
    /\ day = 0
    /\ i = 0
    /\ numArticles = 0
    /\ dayTotal = 0
    /\ articles = << >>
    /\ dailyStats = << >>
    /\ maI = 0
    /\ sourceStats = << >>
    /\ snapshot = NoSnapshot

\* The start of a run: the last run's snapshot is published.
InitPipeline ==
    /\ SampleIdle
    /\ HookIdle
    /\ ViewIdle
    /\ ppc = "fetch"
    /\ items = << >>
    /\ shells = << >>
    /\ classified = << >>
    /\ files = [published |-> PublishedSnapshot, temp |-> NoFile]
    /\ exitStatus = "none"

\* section 6: the Source Adapter returns the raw items
Fetch ==
    /\ ppc = "fetch"
    /\ \E its \in FetchResults : items' = its
    /\ ppc' = "normalize"
    /\ UNCHANGED <<viewVars, sampleVars, hookVars, shells, classified, files, exitStatus>>

\* section 4.1
Normalize ==
    /\ ppc = "normalize"
    /\ shells' = Normalized(items)
    /\ ppc' = "classify"
    /\ UNCHANGED <<viewVars, sampleVars, hookVars, items, classified, files, exitStatus>>

\* section 4.2: the next shell is classified, or dropped when the classifier
\* fails on it
ClassifyItem ==
    /\ ppc = "classify"
    /\ shells # << >>
    /\ \E r \in ClassifierResults :
          classified' =
              IF r.failed THEN classified
              ELSE Append(classified, ClassifiedArticle(Head(shells), r.probability))
    /\ shells' = Tail(shells)
    /\ UNCHANGED <<viewVars, sampleVars, hookVars, ppc, items, files, exitStatus>>

\* section 7, total data loss: the run fails and nothing is written
NoSurvivors ==
    /\ ppc = "classify"
    /\ shells = << >>
    /\ ~ HasSurvivors(classified)
    /\ exitStatus' = "failure"
    /\ ppc' = "done"
    /\ UNCHANGED <<viewVars, sampleVars, hookVars, items, shells, classified, files>>

\* section 5: the writer runs once every classification result is known
Assemble ==
    /\ ppc = "classify"
    /\ shells = << >>
    /\ HasSurvivors(classified)
    /\ ppc' = "write"
    /\ UNCHANGED <<viewVars, sampleVars, hookVars, items, shells, classified, files, exitStatus>>

\* section 4.4: the writer opens its target and writes a part of the snapshot
WriteStart ==
    /\ ppc = "write"
    /\ files' = [files EXCEPT ![WriteTarget] = PartialFile]
    /\ ppc' = "writing"
    /\ UNCHANGED <<viewVars, sampleVars, hookVars, items, shells, classified, exitStatus>>

\* section 4.4: the writer writes the rest
WriteFinish ==
    /\ ppc = "writing"
    /\ files' = [files EXCEPT ![WriteTarget] = NewSnapshot(classified)]
    /\ ppc' = "replace"
    /\ UNCHANGED <<viewVars, sampleVars, hookVars, items, shells, classified, exitStatus>>

\* section 7, serialization/write error: the run fails and the temporary
\* file is given up
WriteFails ==
    /\ ppc \in {"write", "writing"}
    /\ files' = [files EXCEPT !.temp = NoFile]
    /\ exitStatus' = "failure"
    /\ ppc' = "done"
    /\ UNCHANGED <<viewVars, sampleVars, hookVars, items, shells, classified>>

\* section 4.4: the written file replaces the published one in one step
Replace ==
    /\ ppc = "replace"
    /\ files' = [published |-> files[WriteTarget], temp |-> NoFile]
    /\ exitStatus' = "success"
    /\ ppc' = "done"
    /\ UNCHANGED <<viewVars, sampleVars, hookVars, items, shells, classified>>

NextPipeline ==
    \/ Fetch
    \/ Normalize
    \/ ClassifyItem
    \/ NoSurvivors
    \/ Assemble
    \/ WriteStart
    \/ WriteFinish
    \/ WriteFails
    \/ Replace

SpecPipeline == InitPipeline /\ [][NextPipeline]_vars

-----------------------------------------------------------------------------
(* useSentimentData, lines 7-38 *)

\* line 17: the ways the fetch of data.json settles.  `rejected`: the promise
\* of fetch rejects; `ok`: response.ok; `parses`: response.json() resolves,
\* with `json`; `message`: the message of the error that fetch or
\* response.json() rejects with.
Responses ==
    { [ rejected |-> TRUE, ok |-> FALSE, parses |-> FALSE, json |-> Null,
        message |-> "Failed to fetch" ],
      [ rejected |-> FALSE, ok |-> FALSE, parses |-> TRUE,
        json |-> [message |-> "Not Found"], message |-> "" ],
      [ rejected |-> FALSE, ok |-> TRUE, parses |-> FALSE, json |-> Null,
        message |-> "Unexpected token < in JSON at position 0" ],
      [ rejected |-> FALSE, ok |-> TRUE, parses |-> TRUE, json |-> PublishedSnapshot,
        message |-> "" ],
      [ rejected |-> FALSE, ok |-> TRUE, parses |-> TRUE, json |-> Null,
        message |-> "" ] }

\* lines 8-10 and 12: the hook after the first render, its effect not yet run
InitHook ==
    /\ ViewIdle
    /\ SampleIdle
    /\ PipelineIdle
    /\ response \in Responses
    /\ hpc = "mounted"
    /\ data = Null
    /\ loading = TRUE
    /\ error = Null

\* lines 13-17 and 34: the effect calls fetchData, which runs up to the
\* await of fetch
FetchData ==
    /\ hpc = "mounted"
    /\ loading' = TRUE
    /\ hpc' = "fetch"
    /\ UNCHANGED <<viewVars, sampleVars, pipelineVars, response, data, error>>

\* lines 24-28 and 44: the catch block up to the call of getSampleData,
\* which reads the clock
Catch(message) ==
    /\ error' = JsString(message)
    /\ now' = 20 * 24 + 12
    /\ pc' = "day"
    /\ hpc' = "getSampleData"
    /\ UNCHANGED <<viewVars, pipelineVars, response, data, loading, zone, day, i, numArticles,
                   dayTotal, articles, dailyStats, maI, sourceStats, snapshot>>

\* FinallyLoading with the finally block of lines 29-31 left out.
FinallyLoadingKept == TRUE

\* lines 29-31: finally { setLoading(false) }
FinallyLoading == FALSE

\* NotOk with the check of line 18 left out.
NotOkIgnored(r) == FALSE

\* line 18: !response.ok
NotOk(r) == ~ r.ok

\* line 17: fetch rejects
FetchRejected ==
    /\ hpc = "fetch"
    /\ response.rejected
    /\ Catch(response.message)

\* lines 18-20: the response is not OK
ResponseNotOk ==
    /\ hpc = "fetch"
    /\ ~ response.rejected
    /\ NotOk(response)
    /\ Catch("Failed to fetch sentiment data")

\* lines 18-21: the response is OK; fetchData runs up to the await of
\* response.json()
ResponseOk ==
    /\ hpc = "fetch"
    /\ ~ response.rejected
    /\ ~ NotOk(response)
    /\ hpc' = "json"
    /\ UNCHANGED <<viewVars, sampleVars, pipelineVars, response, data, loading, error>>

\* line 21: response.json() rejects
JsonRejected ==
    /\ hpc = "json"
    /\ ~ response.parses
    /\ Catch(response.message)

\* lines 21-23 and 30: the body is parsed
JsonParsed ==
    /\ hpc = "json"
    /\ response.parses
    /\ data' = response.json
    /\ error' = Null
    /\ loading' = FinallyLoading
    /\ hpc' = "done"
    /\ UNCHANGED <<viewVars, sampleVars, pipelineVars, response>>

\* lines 29-31 without line 28: the catch block ending without setData
SetSampleDataOmitted ==
    /\ hpc = "getSampleData"
    /\ pc = "done"
    /\ loading' = FinallyLoading
    /\ hpc' = "done"
    /\ UNCHANGED <<viewVars, sampleVars, pipelineVars, response, error, data>>

\* lines 28-30: getSampleData has returned
SetSampleData ==
    /\ hpc = "getSampleData"
    /\ pc = "done"
    /\ data' = snapshot
    /\ loading' = FinallyLoading
    /\ hpc' = "done"
    /\ UNCHANGED <<viewVars, sampleVars, pipelineVars, response, error>>

NextHook ==
    \/ FetchData
    \/ FetchRejected
    \/ ResponseNotOk
    \/ ResponseOk
    \/ JsonRejected
    \/ JsonParsed
    \/ StartDay
    \/ PushArticle
    \/ EndDay
    \/ ReverseStats
    \/ MovingAvgStep
    \/ CalcSourceStats
    \/ Return
    \/ SetSampleData

\* The hook from its mounting to the end of fetchData.
SpecHook == InitHook /\ [][NextHook]_vars

\* One iteration of the inner loop of getSampleData when Math.random gives
\* the same draws in every iteration.
PushSameArticle == PushArticleOf(CHOOSE d \in Draws : d.headline = 19)

NextHookSameDraws ==
    \/ FetchData
    \/ FetchRejected
    \/ ResponseNotOk
    \/ ResponseOk
    \/ JsonRejected
    \/ JsonParsed
    \/ StartDay
    \/ PushSameArticle
    \/ EndDay
    \/ ReverseStats
    \/ MovingAvgStep
    \/ CalcSourceStats
    \/ Return
    \/ SetSampleData

\* The hook when the promises of fetch and of response.json() settle: the
\* event loop runs every continuation that is ready, and getSampleData runs
\* to its end once called.  The articles of the sample all come from the
\* same draws; the days still differ in their number of articles.
SpecHookFair ==
    InitHook /\ [][NextHookSameDraws]_vars /\ WF_vars(NextHookSameDraws)

-----------------------------------------------------------------------------
(* The presentation layer: from a published score back to a label *)

\* LiveFeed.getSentimentInfo (score in thousandths)
getSentimentInfo(score) ==
    IF score > 200 THEN [color |-> "#22c55e", label |-> "Positive", icon |-> "up"]
    ELSE IF score < -200 THEN [color |-> "#ef4444", label |-> "Negative", icon |-> "down"]
    ELSE [color |-> "#eab308", label |-> "Neutral", icon |-> "level"]

\* App: the badge under the big number, from data.overall_sentiment
AppBadge(score) ==
    IF score > 200 THEN "Optimistic"
    ELSE IF score < -200 THEN "Pessimistic"
    ELSE "Balanced"

-----------------------------------------------------------------------------
(* Vocabulary of the properties *)

\* The neutral band of the specification, on a published score: Positive
\* above 0.2, Negative below -0.2, Neutral between.
NeutralBand(score) ==
    IF score > 200 THEN "Positive"
    ELSE IF score < -200 THEN "Negative"
    ELSE "Neutral"

\* The badge that stands for a label.
BadgeOf(label) ==
    CASE label = "Positive" -> "Optimistic"
      [] label = "Negative" -> "Pessimistic"
      [] OTHER -> "Balanced"

Abs(x) == IF x >= 0 THEN x ELSE -x

\* v is the quotient sum / n rounded to the thousandth: no thousandth is
\* nearer to the quotient than v.
IsRoundedMean(v, sum, n) == n > 0 /\ 2 * Abs(v * n - sum) <= n

RECURSIVE SumOver(_, _)
\* The sum of the function f over the finite set S of its arguments.
SumOver(f, S) ==
    IF S = {} THEN 0
    ELSE LET x == CHOOSE y \in S : TRUE IN f[x] + SumOver(f, S \ {x})

\* The snapshot has been returned.
Returned == pc = "done"

\* The indices of the snapshot's articles published on a UTC date.
ArticlesOn(date) ==
    {k \in DOMAIN snapshot.articles : DateStr(snapshot.articles[k].published) = date}

\* The indices of the snapshot's articles of a source.
ArticlesOf(source) ==
    {k \in DOMAIN snapshot.articles : snapshot.articles[k].source = source}

Scores == [k \in DOMAIN snapshot.articles |-> snapshot.articles[k].sentiment_score]

\* The source names in ascending order.
NamesAscending ==
    << "Ars Technica", "BBC News", "Bloomberg", "CNBC", "MIT Technology Review",
       "New York Times", "Reuters", "TechCrunch", "The Guardian", "The Verge",
       "VentureBeat", "Wired" >>

NameRank(name) == CHOOSE r \in DOMAIN NamesAscending : NamesAscending[r] = name

-----------------------------------------------------------------------------
(* Properties of the returned snapshot *)

\* C1: every article's sentiment_label is the neutral band of its published
\* sentiment_score (Positive iff score > 0.2, Negative iff score < -0.2,
\* else Neutral), so the label LiveFeed recomputes from the score is the
\* stored label.
C1_LabelIsBandOfScore ==
    Returned =>
        \A k \in DOMAIN snapshot.articles :
            LET a == snapshot.articles[k]
            IN  /\ a.sentiment_label = NeutralBand(a.sentiment_score)
                /\ getSentimentInfo(a.sentiment_score).label = a.sentiment_label

\* C2: in every daily statistic the three label counts add up to
\* article_count, whatever the time of day of `now`.
C2_LabelCountsSumToArticleCount ==
    Returned =>
        \A d \in DOMAIN snapshot.daily_stats :
            LET st == snapshot.daily_stats[d]
            IN  st.positive_count + st.negative_count + st.neutral_count
                    = st.article_count

\* C3: article_count of a daily statistic is the number of articles of the
\* snapshot published on its UTC date, and the UTC date of every article has
\* a daily statistic.
C3_ArticleCountIsCountOfDate ==
    Returned =>
        /\ \A d \in DOMAIN snapshot.daily_stats :
              snapshot.daily_stats[d].article_count
                  = Cardinality(ArticlesOn(snapshot.daily_stats[d].date))
        /\ \A k \in DOMAIN snapshot.articles :
              \E d \in DOMAIN snapshot.daily_stats :
                  snapshot.daily_stats[d].date = DateStr(snapshot.articles[k].published)

\* C4: avg_sentiment of a daily statistic is the mean, rounded to the
\* thousandth, of the published scores of the articles of its date.
C4_AvgIsMeanOfPublishedScores ==
    Returned =>
        \A d \in DOMAIN snapshot.daily_stats :
            LET st == snapshot.daily_stats[d]
                on == ArticlesOn(st.date)
            IN  IsRoundedMean(st.avg_sentiment, SumOver(Scores, on), Cardinality(on))

\* daily_stats is in ascending date order.
DatesAscending ==
    \A a, b \in DOMAIN snapshot.daily_stats :
        a < b => snapshot.daily_stats[a].date < snapshot.daily_stats[b].date

DailyAvgs ==
    [d \in DOMAIN snapshot.daily_stats |-> snapshot.daily_stats[d].avg_sentiment]

\* The trailing window of the entry d (counted from 1): the entry and the
\* six before it, as far as they exist.
TrailingWindow(d) == {j \in DOMAIN snapshot.daily_stats : j <= d /\ j >= d - 6}

\* C5: with daily_stats in ascending date order, moving_avg of every entry
\* is the mean, rounded to the thousandth, of avg_sentiment over the entry
\* and the up to six entries before it: min(i + 1, 7) entries, no wrapping
\* around, no padding.
C5_MovingAvgIsTrailingMean ==
    (Returned /\ DatesAscending) =>
        \A d \in DOMAIN snapshot.daily_stats :
            /\ Cardinality(TrailingWindow(d)) = Min(d, 7)
            /\ IsRoundedMean(snapshot.daily_stats[d].moving_avg,
                             SumOver(DailyAvgs, TrailingWindow(d)),
                             Cardinality(TrailingWindow(d)))

\* A series of more than 7 days in ascending order whose last window leaves
\* the first day out, with a mean that differs from the mean over all days
\* and from the last day's own average.
C5_Witness ==
    /\ Returned
    /\ DatesAscending
    /\ Len(snapshot.daily_stats) > 7
    /\ LET n == Len(snapshot.daily_stats)
           last == snapshot.daily_stats[n]
       IN  /\ ~ IsRoundedMean(last.moving_avg,
                              SumOver(DailyAvgs, DOMAIN snapshot.daily_stats), n)
           /\ last.moving_avg # last.avg_sentiment
           /\ snapshot.daily_stats[3].moving_avg # snapshot.daily_stats[3].avg_sentiment

\* C6: overall_sentiment is the mean, rounded to the thousandth, of
\* sentiment_score over all articles of the snapshot.
C6_OverallIsMeanOfArticleScores ==
    Returned =>
        IsRoundedMean(snapshot.overall_sentiment,
                      SumOver(Scores, DOMAIN snapshot.articles),
                      Len(snapshot.articles))

\* A snapshot of days of different sizes whose overall score is not the
\* mean of its daily averages and needed rounding.
C6_Witness ==
    /\ Returned
    /\ \E a, b \in DOMAIN snapshot.daily_stats :
          snapshot.daily_stats[a].article_count # snapshot.daily_stats[b].article_count
    /\ ~ IsRoundedMean(snapshot.overall_sentiment,
                       SumOver(DailyAvgs, DOMAIN snapshot.daily_stats),
                       Len(snapshot.daily_stats))
    /\ snapshot.overall_sentiment * Len(snapshot.articles)
          # SumOver(Scores, DOMAIN snapshot.articles)

\* The place of the first article of a source in the snapshot's articles.
FirstSeen(source) ==
    CHOOSE k \in ArticlesOf(source) : \A j \in ArticlesOf(source) : k <= j

C8_OverallLabelIsBandOfOverall ==
    Returned =>
        /\ snapshot.overall_label = NeutralBand(snapshot.overall_sentiment)
        /\ BadgeOf(snapshot.overall_label) = AppBadge(snapshot.overall_sentiment)

\* C9: sentiment_label of every source statistic is the neutral band of its
\* published avg_sentiment.
C9_SourceLabelIsBandOfAvg ==
    Returned =>
        \A s \in DOMAIN snapshot.source_stats :
            snapshot.source_stats[s].sentiment_label
                = NeutralBand(snapshot.source_stats[s].avg_sentiment)

DailyCounts ==
    [d \in DOMAIN snapshot.daily_stats |-> snapshot.daily_stats[d].article_count]

SourceCounts ==
    [s \in DOMAIN snapshot.source_stats |-> snapshot.source_stats[s].article_count]

\* C10: total_articles is the length of articles, and article_count adds up
\* to total_articles over daily_stats and over source_stats.
C10_TotalsAgree ==
    Returned =>
        /\ snapshot.total_articles = Len(snapshot.articles)
        /\ SumOver(DailyCounts, DOMAIN snapshot.daily_stats) = snapshot.total_articles
        /\ SumOver(SourceCounts, DOMAIN snapshot.source_stats) = snapshot.total_articles

\* A snapshot of several days and several sources, one with several
\* articles.
C10_Witness ==
    /\ Returned
    /\ Len(snapshot.daily_stats) > 1
    /\ Len(snapshot.source_stats) > 1
    /\ \E s \in DOMAIN snapshot.source_stats : snapshot.source_stats[s].article_count > 1
    /\ \E d \in DOMAIN snapshot.daily_stats : snapshot.daily_stats[d].article_count > 1

\* C11: daily_stats of every returned snapshot is in strictly ascending
\* date order: one entry per date, no date twice.
C11_DailyStatsStrictlyAscending ==
    Returned => DatesAscending

\* C12: the articles of every returned snapshot are in descending order of
\* published: of two neighbours the first is published no earlier than the
\* second.
C12_ArticlesDescendingByPublished ==
    Returned =>
        \A k \in DOMAIN snapshot.articles :
            k > 1 => snapshot.articles[k - 1].published >= snapshot.articles[k].published

\* A snapshot of three or more articles from several loop days, published at
\* different times.
C12_Witness ==
    /\ Returned
    /\ Len(snapshot.articles) >= 3
    /\ \E j, k \in DOMAIN snapshot.articles :
          /\ snapshot.articles[j].link[1] # snapshot.articles[k].link[1]
          /\ snapshot.articles[j].published > snapshot.articles[k].published
    /\ \E j, k \in DOMAIN snapshot.articles :
          /\ snapshot.articles[j].link[1] = snapshot.articles[k].link[1]
          /\ snapshot.articles[j].published > snapshot.articles[k].published

\* C13: no two articles of a returned snapshot have the same headline and
\* source, and no two have the same link.
C13_NoDuplicateArticles ==
    Returned =>
        \A j, k \in DOMAIN snapshot.articles :
            j # k =>
                /\ ~ (/\ snapshot.articles[j].headline = snapshot.articles[k].headline
                      /\ snapshot.articles[j].source = snapshot.articles[k].source)
                /\ snapshot.articles[j].link # snapshot.articles[k].link

\* The retention window in hours: as many days as the day loop generates
\* (the 14 of line 77).
RetentionHours == 24 * NumDays

\* C14: no article of a returned snapshot is published longer before the
\* `now` of the run than the retention window.
C14_NoArticleOlderThanRetention ==
    Returned =>
        \A k \in DOMAIN snapshot.articles :
            now - snapshot.articles[k].published <= RetentionHours

\* A snapshot with an article of the oldest loop day that is not the day's
\* first, published more than NumDays - 1 days before `now`.
C14_Witness ==
    /\ Returned
    /\ \E k \in DOMAIN snapshot.articles :
          /\ snapshot.articles[k].link[1] = NumDays - 1
          /\ snapshot.articles[k].link[2] > 0
          /\ now - snapshot.articles[k].published > 24 * (NumDays - 1)
          /\ snapshot.last_updated = now

-----------------------------------------------------------------------------
(* Properties of a run of the pipeline *)

\* C15: the classifier adapter gives every article the score 2p - 1 of the
\* probability p in [0, 1] its headline got for the positive class, so the
\* score lies in [-1, 1]; the label is the neutral band of the score: p = 0.9
\* gives 0.8 and Positive, p = 0.5 gives 0 and Neutral, p = 0.05 gives -0.9
\* and Negative.
C15_ScoreIsTwicePMinusOne ==
    \A k \in DOMAIN classified :
        LET a == classified[k]
        IN  /\ a.sentiment_score = 2 * a.probability - 1000
            /\ a.sentiment_score >= -1000 /\ a.sentiment_score <= 1000
            /\ a.sentiment_label = NeutralBand(a.sentiment_score)
            /\ a.probability = 900 => a.sentiment_score = 800 /\ a.sentiment_label = "Positive"
            /\ a.probability = 500 => a.sentiment_score = 0 /\ a.sentiment_label = "Neutral"
            /\ a.probability = 50 => a.sentiment_score = -900 /\ a.sentiment_label = "Negative"

\* Two articles of one run, classified with p = 0.9 and p = 0.05.
C15_Witness ==
    /\ Len(classified) >= 2
    /\ \E k \in DOMAIN classified : classified[k].probability = 900
    /\ \E k \in DOMAIN classified : classified[k].probability = 50

\* C16: a run that ends with no article left after normalization and
\* classification ends in failure, has written no file, and leaves the
\* published snapshot as it was.
C16_NoSurvivorsFailsWithoutWriting ==
    (ppc = "done" /\ classified = << >>) =>
        /\ exitStatus = "failure"
        /\ files.temp = NoFile
        /\ files.published = PublishedSnapshot

\* A run that fetched as many items as it can and lost every one of them,
\* the last one to a failure of the classifier.
C16_Witness ==
    /\ ppc = "done"
    /\ classified = << >>
    /\ Len(items) = MaxItems
    /\ Normalized(items) # << >>

\* C17: at every point of a run the published file is the whole snapshot of
\* the last run or the whole snapshot of this run, and it is this run's only
\* when the run has succeeded; a run that failed has left the published file
\* as it was.
C17_PublishedFileAlwaysWhole ==
    /\ files.published \in {PublishedSnapshot, NewSnapshot(classified)}
    /\ files.published # PublishedSnapshot => exitStatus = "success"
    /\ exitStatus = "failure" => files.published = PublishedSnapshot

\* The writer is half way through the new snapshot while the last one is
\* still the published file.
C17_Witness ==
    /\ ppc = "writing"
    /\ files[WriteTarget] = PartialFile
    /\ files.published = PublishedSnapshot
    /\ Len(classified) >= 2

-----------------------------------------------------------------------------
(* Properties of useSentimentData *)

\* fetchData has run to its end.
HookDone == hpc = "done"

\* The value is the snapshot that getSampleData returned.
IsSampleData(d) == pc = "done" /\ d = snapshot

\* The message of the error thrown in the try block of fetchData.
ThrownMessage ==
    IF response.rejected \/ response.ok THEN response.message
    ELSE "Failed to fetch sentiment data"

\* C19: what the presentation layer shows once loading is over is the
\* snapshot that the pipeline published last, also when data.json could not
\* be obtained.
C19_ShowsOnlyPublishedSnapshot ==
    (~ loading /\ data # Null) => data = files.published

\* C20: when the response is OK and its body parses, the hook ends with data
\* the parsed JSON and error null; otherwise it ends with error the message
\* of the error and data the snapshot of getSampleData.  So once loading is
\* over, error is non-null exactly when data is sample data.
C20_HookOutcomePerPath ==
    HookDone =>
        /\ ~ loading
        /\ IF ~ response.rejected /\ response.ok /\ response.parses
           THEN data = response.json /\ error = Null
           ELSE /\ error = JsString(ThrownMessage)
                /\ error # Null
                /\ IsSampleData(data)
                /\ data.last_updated = now
        /\ (error # Null) <=> IsSampleData(data)

\* The hook has ended on a response that is not OK although its body is
\* JSON: the error is set and the data is the sample of two days.
C20_Witness ==
    /\ HookDone
    /\ ~ response.rejected /\ ~ response.ok /\ response.parses
    /\ error = JsString("Failed to fetch sentiment data")
    /\ IsSampleData(data)
    /\ Len(data.daily_stats) = NumDays

\* C21: the hook starts with loading = true; when the promises settle,
\* loading becomes false on every path; and once loading is false it stays
\* false.
C21_LoadingEndsAndStaysFalse ==
    /\ loading = TRUE
    /\ <>(loading = FALSE)
    /\ [][loading = FALSE => loading' = FALSE]_vars

\* fetchData has ended on a failure path, with loading false and the error
\* set.
C21_Witness ==
    /\ HookDone
    /\ ~ loading
    /\ response.rejected
    /\ error # Null


\* C22: in every reachable state of the hook, loading = false implies that data
\* is not null, on the success path and on the failure path, provided the
\* fetched JSON value is not null.
FetchedJsonNull == response # Null /\ response.ok /\ response.parses /\ response.json = Null

C22_NotLoadingImpliesData == (~ loading /\ ~ FetchedJsonNull) => data # Null

\* Both paths have ended: the catch block has set the sample data.
C22_Witness ==
    /\ ~ loading
    /\ ~ response.ok
    /\ error # Null
    /\ IsSampleData(data)
    /\ Len(data.articles) > 0


-----------------------------------------------------------------------------
(* App and its four ScrollSections.  A ScrollSection calls onVisible(id), which
   is App's setActiveSection, while it renders with inView true.  React queues
   a state update made during a render and processes the queue in the next
   render of App; a render of App renders every ScrollSection again, in
   document order.  The sections in view are taken to be fixed while updates
   are waiting: the observer and the scroll listener act between two such
   cycles. *)

MaxScrollY == 1

\* The sets of sections that can be in view together: neighbours in the document
InViewChoices ==
    {[k \in DOMAIN Sections |-> a <= k /\ k <= b] :
        a \in DOMAIN Sections, b \in 0 .. Len(Sections)}

RECURSIVE OnVisibleCalls(_, _)
\* The ids passed to onVisible by the first n sections when they render, in
\* document order; `rendering` tells which sections render.
OnVisibleCalls(rendering, n) ==
    IF n = 0 THEN << >>
    ELSE IF rendering[n]
         THEN Append(OnVisibleCalls(rendering, n - 1), Sections[n])
         ELSE OnVisibleCalls(rendering, n - 1)

\* React applies the queued updates of one state in order: the first rules
FirstUpdate(queue, current) == IF queue = << >> THEN current ELSE queue[1]

\* React applies the queued updates of one state in order: the last one rules
LastUpdate(queue, current) == IF queue = << >> THEN current ELSE queue[Len(queue)]

\* No update is waiting for a render of App.
Settled == sectionQueue = << >> /\ scrollQueue = << >>

\* The IntersectionObserver reports the sections now in view: every section
\* whose inView changed renders again, on its own, and calls onVisible if it is
\* now in view.
Observe ==
    /\ Settled
    /\ \E seen \in InViewChoices \ {inView} :
        /\ inView' = seen
        /\ sectionQueue' =
              OnVisibleCalls([k \in DOMAIN Sections |-> seen[k] /\ ~ inView[k]],
                             Len(Sections))
        /\ notified' = \E k \in DOMAIN Sections : seen[k] /\ ~ inView[k]
    /\ UNCHANGED <<activeSection, scrollY, scrollQueue>>
    /\ UNCHANGED <<sampleVars, hookVars, pipelineVars, feedVars, chartVars, progressVars>>

\* App.jsx line 21: handleScroll, at a scroll position other than scrollY
HandleScroll ==
    /\ Settled
    /\ \E y \in (0 .. MaxScrollY) \ {scrollY} : scrollQueue' = <<y>>
    /\ UNCHANGED <<inView, activeSection, scrollY, sectionQueue, notified>>
    /\ UNCHANGED <<sampleVars, hookVars, pipelineVars, feedVars, chartVars, progressVars>>

\* React renders App for the waiting updates.  If neither state changes, React
\* drops the render without rendering the children; otherwise every
\* ScrollSection renders and those in view call onVisible again.
RenderApp ==
    /\ ~ Settled
    /\ \E section \in {LastUpdate(sectionQueue, activeSection)} :
       \E y \in {LastUpdate(scrollQueue, scrollY)} :
          IF section = activeSection /\ y = scrollY
          THEN /\ sectionQueue' = << >>
               /\ scrollQueue' = << >>
               /\ UNCHANGED <<inView, activeSection, scrollY, notified>>
          ELSE /\ activeSection' = section
               /\ scrollY' = y
               /\ sectionQueue' = OnVisibleCalls(inView, Len(Sections))
               /\ scrollQueue' = << >>
               /\ notified' = (notified \/ \E k \in DOMAIN Sections : inView[k])
               /\ UNCHANGED inView
    /\ UNCHANGED <<sampleVars, hookVars, pipelineVars, feedVars, chartVars, progressVars>>

InitScroll ==
    /\ SampleIdle
    /\ HookIdle
    /\ PipelineIdle
    /\ ScrollIdle
    /\ FeedIdle
    /\ ChartIdle
    /\ ProgressIdle

NextScroll ==
    \/ Observe
    \/ HandleScroll
    \/ RenderApp

\* React renders a component whose update is waiting.
SpecScroll == InitScroll /\ [][NextScroll]_vars /\ WF_vars(RenderApp)

\* The sections in view, and the last of them in the document
InViewIds == {k \in DOMAIN Sections : inView[k]}

LastInView == Sections[CHOOSE k \in InViewIds : \A m \in InViewIds : m <= k]

\* C23: whenever at least one ScrollSection is in view, activeSection is the id
\* of a section that is in view (stated where no update is waiting).
C23_ActiveSectionIsInView ==
    (Settled /\ InViewIds # {}) => \E k \in InViewIds : activeSection = Sections[k]

-----------------------------------------------------------------------------
(* LiveFeed: the list of headlines with its show-more button *)

\* Most articles handed to LiveFeed
MaxFeedArticles == 32

\* LineChart.jsx line 308: limit = 12
DefaultLimit == 12

\* LineChart.jsx line 322: articles.slice(0, 30)
ExpandedLimit == 30

\* The limit props LiveFeed is mounted with
Limits == {3, DefaultLimit, ExpandedLimit, ExpandedLimit + 1}

\* The articles props LiveFeed is mounted with: missing, or a list of articles
\* (an article is named by its place in the input)
FeedChoices ==
    {[present |-> FALSE, list |-> << >>]}
        \cup {[present |-> TRUE, list |-> [k \in 1 .. n |-> k]] : n \in 0 .. MaxFeedArticles}

\* Array.prototype.slice(0, end), 0 <= end
SliceFromStart(s, end) == SubSeq(s, 1, Min(end, Len(s)))

\* line 311: !articles || articles.length === 0
Placeholder(arts) == ~ arts.present \/ Len(arts.list) = 0

\* line 322 with the branches exchanged
displayArticlesExchanged(arts, limit, isExpanded) ==
    IF isExpanded THEN SliceFromStart(arts.list, limit)
    ELSE SliceFromStart(arts.list, ExpandedLimit)

\* line 322
displayArticles(arts, limit, isExpanded) ==
    IF isExpanded THEN SliceFromStart(arts.list, ExpandedLimit)
    ELSE SliceFromStart(arts.list, limit)

\* line 440: articles.length > limit
ButtonRendered(arts, limit) == ~ Placeholder(arts) /\ Len(arts.list) > limit

\* line 452: the N of 'Show N More Headlines'
ShowMoreCount(arts, limit) == Min(ExpandedLimit, Len(arts.list)) - limit

InitFeed ==
    /\ SampleIdle
    /\ HookIdle
    /\ PipelineIdle
    /\ ScrollIdle
    /\ ChartIdle
    /\ ProgressIdle
    /\ feedArticles \in FeedChoices
    /\ feedLimit \in Limits
    /\ expanded = FALSE

\* line 442: onClick={() => setExpanded(!expanded)}
ClickButton ==
    /\ ButtonRendered(feedArticles, feedLimit)
    /\ expanded' = ~ expanded
    /\ UNCHANGED <<feedArticles, feedLimit>>
    /\ UNCHANGED <<sampleVars, hookVars, pipelineVars, scrollVars, chartVars, progressVars>>

NextFeed ==
    \/ ClickButton

SpecFeed == InitFeed /\ [][NextFeed]_vars

\* The first n of the articles, in input order
FirstArticles(n) == [k \in 1 .. Min(n, Len(feedArticles.list)) |-> feedArticles.list[k]]

Displayed == displayArticles(feedArticles, feedLimit, expanded)

\* C25: LiveFeed shows the first min(limit, n) articles when collapsed and the
\* first min(30, n) when expanded, in input order; the button is rendered iff
\* n > limit; expanded changes only by a click on the button and each click
\* toggles it; with no articles only the placeholder is rendered.
C25_LiveFeedShowsFirstArticles ==
    /\ [](Placeholder(feedArticles)
            <=> (~ feedArticles.present \/ Len(feedArticles.list) = 0))
    /\ [](~ Placeholder(feedArticles) =>
            /\ ~ expanded => Displayed = FirstArticles(feedLimit)
            /\ expanded => Displayed = FirstArticles(30)
            /\ ButtonRendered(feedArticles, feedLimit)
                  <=> Len(feedArticles.list) > feedLimit)
    /\ [](Placeholder(feedArticles) =>
            ~ ButtonRendered(feedArticles, feedLimit) /\ ~ expanded)
    /\ [][expanded' = ~ expanded /\ Len(feedArticles.list) > feedLimit]_vars

C25_Witness ==
    /\ expanded
    /\ feedLimit = 12
    /\ Len(feedArticles.list) = 31
    /\ Len(Displayed) = 30

\* C26: whenever the button 'Show N More Headlines' is rendered, N is positive
\* and is the number of headlines shown when expanded minus the number shown
\* when collapsed.
C26_ShowMoreCountIsGain ==
    (ButtonRendered(feedArticles, feedLimit) /\ ~ expanded) =>
        /\ ShowMoreCount(feedArticles, feedLimit) > 0
        /\ ShowMoreCount(feedArticles, feedLimit) =
              Len(displayArticles(feedArticles, feedLimit, TRUE))
                - Len(displayArticles(feedArticles, feedLimit, FALSE))


-----------------------------------------------------------------------------
(* LineChart and BubbleChart: what they draw for one DailyStat and for one
   SourceStat.  Scores are in thousandths; the y and x scales are linear, so a
   plotted value is named by the score it stands for. *)

\* The scores a DailyStat or a SourceStat is drawn with
ChartScores == {-1000, -500, -201, -200, -150, -100, 0, 100, 150, 200, 201, 500, 1000}

JsNumber(v) == [type |-> "number", value |-> v]

\* The DailyStats handed to LineChart: moving_avg may be absent
DailyStatChoices ==
    {[moving_avg |-> m, avg_sentiment |-> a] :
        m \in {Null} \cup {JsNumber(v) : v \in ChartScores}, a \in ChartScores}

\* a || b of JavaScript, for a number a that may be absent and a number b:
\* undefined and 0 are falsy
OrElse(a, b) == IF a # Null /\ a.value # 0 THEN a.value ELSE b

\* LineChart.jsx line 138: the y1 of the area
AreaY1(d) == OrElse(d.moving_avg, d.avg_sentiment)

\* LineChart.jsx line 151: the y of the trend line
MovingLineY(d) == OrElse(d.moving_avg, d.avg_sentiment)

\* LineChart.jsx line 182: the fill of a day point
DayPointFill(d) ==
    IF d.avg_sentiment > 200 THEN "#22c55e"
    ELSE IF d.avg_sentiment < -200 THEN "#ef4444"
    ELSE "#eab308"

\* part_001 lines 192-196: the fill of a bar
BarFill(avg_sentiment) ==
    IF avg_sentiment > 200 THEN "url(#bar-positive)"
    ELSE IF avg_sentiment < -200 THEN "url(#bar-negative)"
    ELSE "url(#bar-neutral)"

\* part_001 lines 221-225: the fill of a score label
ScoreFill(avg_sentiment) ==
    IF avg_sentiment > 100 THEN "#059669"
    ELSE IF avg_sentiment < -100 THEN "#dc2626"
    ELSE "#57534e"

\* App.jsx lines 40-44
getSentimentColorClass(score) ==
    IF score > 200 THEN "text-[#22c55e]"
    ELSE IF score < -200 THEN "text-[#ef4444]"
    ELSE "text-[#eab308]"

\* LineChart.jsx lines 134-182: the chart as first drawn for the data
DrawnLineChart(d) ==
    /\ chartDay = d
    /\ trendY = [area |-> AreaY1(d), line |-> MovingLineY(d)]
    /\ pointFill = DayPointFill(d)

\* part_001 lines 186-231: the bars as first drawn for the data
DrawnBubbleChart(avg_sentiment) ==
    /\ barSource = avg_sentiment
    /\ barFill = BarFill(avg_sentiment)
    /\ scoreFill = ScoreFill(avg_sentiment)

InitChart ==
    /\ SampleIdle
    /\ HookIdle
    /\ PipelineIdle
    /\ ScrollIdle
    /\ FeedIdle
    /\ ProgressIdle
    /\ \E d \in DailyStatChoices : DrawnLineChart(d)
    /\ \E s \in ChartScores : DrawnBubbleChart(s)

\* LineChart is drawn again for new data
DrawLineChart ==
    /\ \E d \in DailyStatChoices :
          /\ chartDay' = d
          /\ trendY' = [area |-> AreaY1(d), line |-> MovingLineY(d)]
          /\ pointFill' = DayPointFill(d)
    /\ UNCHANGED <<barSource, barFill, scoreFill>>
    /\ UNCHANGED <<sampleVars, hookVars, pipelineVars, scrollVars, feedVars, progressVars>>

\* BubbleChart is drawn again for new data
DrawBubbleChart ==
    /\ \E s \in ChartScores :
          /\ barSource' = s
          /\ barFill' = BarFill(s)
          /\ scoreFill' = ScoreFill(s)
    /\ UNCHANGED <<chartDay, trendY, pointFill>>
    /\ UNCHANGED <<sampleVars, hookVars, pipelineVars, scrollVars, feedVars, progressVars>>

NextChart ==
    \/ DrawLineChart
    \/ DrawBubbleChart

SpecChart == InitChart /\ [][NextChart]_vars

\* C27: for a DailyStat that carries a moving_avg, 0 included, the trend line
\* and the area plot its moving_avg; avg_sentiment is plotted only when
\* moving_avg is absent.
C27_TrendPlotsMovingAvg ==
    /\ chartDay.moving_avg # Null =>
          /\ trendY.line = chartDay.moving_avg.value
          /\ trendY.area = chartDay.moving_avg.value
    /\ chartDay.moving_avg = Null =>
          /\ trendY.line = chartDay.avg_sentiment
          /\ trendY.area = chartDay.avg_sentiment

\* The polarity class a fill, a colour class or a label stands for
PolarityOf(shown) ==
    IF shown \in {"url(#bar-positive)", "#059669", "#22c55e", "text-[#22c55e]",
                  "Positive", "Optimistic"}
    THEN "Positive"
    ELSE IF shown \in {"url(#bar-negative)", "#dc2626", "#ef4444", "text-[#ef4444]",
                       "Negative", "Pessimistic"}
    THEN "Negative"
    ELSE "Neutral"

\* C28: every place that turns a score into a polarity class uses the band
\* +-0.2; in particular the bar of a source and its score label show the same
\* class.
C28_SameNeutralBandEverywhere ==
    /\ PolarityOf(pointFill) = NeutralBand(chartDay.avg_sentiment)
    /\ PolarityOf(getSentimentColorClass(barSource)) = NeutralBand(barSource)
    /\ PolarityOf(getSentimentInfo(barSource).label) = NeutralBand(barSource)
    /\ PolarityOf(AppBadge(barSource)) = NeutralBand(barSource)
    /\ PolarityOf(barFill) = NeutralBand(barSource)
    /\ PolarityOf(scoreFill) = NeutralBand(barSource)
    /\ PolarityOf(barFill) = PolarityOf(scoreFill)


-----------------------------------------------------------------------------
(* useScrollProgress: lengths are whole pixels; progress is the fraction
   num / den, and num = den = 0 stands for NaN. *)

\* Largest length, in pixels, of the window and of the element
MaxPixels == 3

\* What ref.current is at a scroll event: nothing, or an element with its
\* bounding rectangle (rect.bottom = rect.top + rect.height)
ElementChoices ==
    {Null} \cup {[top |-> t, height |-> h] : t \in -MaxPixels .. MaxPixels, h \in 0 .. MaxPixels}

Bottom(rect) == rect.top + rect.height

\* App.jsx line 375 with the bounds of the viewport counted in
VisibleInclusive(rect, height) == rect.top <= height /\ Bottom(rect) >= 0

\* App.jsx line 375
Visible(rect, height) == rect.top < height /\ Bottom(rect) > 0

\* Math.min(1, Math.max(0, num / den)) for whole num and den >= 0
Clamped(num, den) ==
    IF den = 0
    THEN IF num > 0 THEN [num |-> 1, den |-> 1]
         ELSE IF num < 0 THEN [num |-> 0, den |-> 1]
         ELSE [num |-> 0, den |-> 0]
    ELSE IF num <= 0 THEN [num |-> 0, den |-> 1]
    ELSE IF num >= den THEN [num |-> 1, den |-> 1]
    ELSE [num |-> num, den |-> den]

\* App.jsx lines 380-382
scrollProgress(rect, height) == Clamped(height - rect.top, height + rect.height)

InitProgress ==
    /\ SampleIdle
    /\ HookIdle
    /\ PipelineIdle
    /\ ScrollIdle
    /\ FeedIdle
    /\ ChartIdle
    /\ ProgressIdle

\* App.jsx lines 362-385: handleScroll, at a scroll event and when the effect
\* runs
HandleProgressScroll ==
    /\ \E current \in ElementChoices, height \in 0 .. MaxPixels :
          IF current = Null
          THEN UNCHANGED <<element, windowHeight, progress, isVisible>>
          ELSE /\ element' = current
               /\ windowHeight' = height
               /\ isVisible' = Visible(current, height)
               /\ progress' = IF Visible(current, height)
                              THEN scrollProgress(current, height)
                              ELSE progress
    /\ UNCHANGED <<sampleVars, hookVars, pipelineVars, scrollVars, feedVars, chartVars>>

NextProgress ==
    \/ HandleProgressScroll

SpecProgress == InitProgress /\ [][NextProgress]_vars

\* C29: progress is within [0, 1] whatever the rectangle and the window height,
\* and isVisible is true iff rect.top < window height and rect.bottom > 0 at the
\* last scroll event that found the element.
C29_ProgressInRangeAndVisibleIffOnScreen ==
    /\ progress.den > 0
    /\ 0 <= progress.num
    /\ progress.num <= progress.den
    /\ element # Null =>
          (isVisible <=> (element.top < windowHeight
                            /\ element.top + element.height > 0))
    /\ element = Null => ~ isVisible

C29_Witness ==
    /\ element # Null
    /\ isVisible
    /\ element.top = -1
    /\ windowHeight = 2
    /\ progress = [num |-> 3, den |-> 5]

=============================================================================
